---- MODULE Spec2Model ----
(***************************************************************************)
(* Model of bmc_data-example.py: one run of main(), which fetches the BMC  *)
(* power parameters of a node from the MAAS CLI, exports them as process   *)
(* environment variables, writes them to a Vault KV v2 secret and reads    *)
(* the secret back.                                                        *)
(***************************************************************************)
EXTENDS Integers, Sequences, FiniteSets, TLC

(* ---------------- bounds of the model ---------------- *)

\* exit codes of the inventory command range over 0..MaxExit
MaxExit == 2
\* number of versions already stored at the node's path before the run: 0..MaxPrior
MaxPrior == 1

(* ---------------- literals of main() ---------------- *)

maas_user == "testflinger_a"
node_id == "m7gfpp"

(* ---------------- JSON / Python values ---------------- *)

\* A scalar Python value: t is its type, v its content.
PyStr(s) == [t |-> "str", v |-> s]
PyNone == [t |-> "NoneType", v |-> "None"]
PyInt == [t |-> "int", v |-> "42"]
PyList == [t |-> "list", v |-> "[]"]
\* marks a key that a dict does not have
Absent == [t |-> "absent", v |-> ""]

Keys == {"power_address", "power_user", "power_pass"}
KeyOrder == <<"power_address", "power_user", "power_pass">>

\* bodies of JSON string literals as they appear in the command's output
StrBodies == {"10.0.0.5", "admin", "secret", "a\\u0000b"}

\* json string unescaping: \u0000 becomes a NUL character in the str
JsonUnescape(body) == IF body = "a\\u0000b" THEN "a<NUL>b" ELSE body
JsonEscape(s) == IF s = "a<NUL>b" THEN "a\\u0000b" ELSE s

\* values a field of the inventory response may hold
FieldVals == {PyStr(JsonUnescape(b)) : b \in StrBodies} \cup {PyNone, PyInt}

\* a parsed document: a dict over a subset of Keys, or a non-dict value
NoFields == [k \in Keys |-> Absent]
PyDict(f) == [t |-> "dict", v |-> "", d |-> f]
PyScalar(x) == [t |-> x.t, v |-> x.v, d |-> NoFields]
Dicts == {PyDict(f) : f \in [Keys -> FieldVals \cup {Absent}]}
NonDicts == {PyScalar(PyNone), PyScalar(PyInt), PyScalar(PyList), PyScalar(PyStr("admin"))}
Docs == Dicts \cup NonDicts

\* JSON text of a scalar
DumpScalar(x) ==
  CASE x.t = "str" -> "\"" \o JsonEscape(x.v) \o "\""
    [] x.t = "NoneType" -> "null"
    [] OTHER -> x.v

RECURSIVE DumpItems(_, _, _)
DumpItems(f, i, first) ==
  IF i > Len(KeyOrder) THEN ""
  ELSE LET k == KeyOrder[i]
       IN IF f[k] = Absent THEN DumpItems(f, i + 1, first)
          ELSE (IF first THEN "" ELSE ",")
               \o "\"" \o k \o "\":" \o DumpScalar(f[k])
               \o DumpItems(f, i + 1, FALSE)

\* JSON text of a document, as the inventory tool prints it
Dumps(doc) ==
  IF doc.t = "dict" THEN "{" \o DumpItems(doc.d, 1, TRUE) \o "}"
  ELSE DumpScalar(doc)

JsonTexts == {Dumps(doc) : doc \in Docs}
\* outputs that are not JSON, and output that is not UTF-8
BadJsonTexts == {"Machine not found"}
BadUtf8Texts == {"<0xff>"}
Stdouts == {""} \cup JsonTexts \cup BadJsonTexts \cup BadUtf8Texts

(* ---------------- call_cmd ---------------- *)

\* what subprocess.run observes: whether the executable was found, the exit
\* code and the captured stdout (stderr is merged into it)
CmdResults ==
  {[found |-> FALSE, returncode |-> 0, stdout |-> ""]}
  \cup [found : {TRUE}, returncode : 0..MaxExit, stdout : Stdouts]

NoValue == PyScalar(PyNone)
NoLogArg == [ip |-> Absent, user |-> Absent, passw |-> Absent]
LogRec(level, msg, arg) == [level |-> level, msg |-> msg, arg |-> arg]

\* bytes.decode(): fails on output that is not UTF-8
decode(stdout) ==
  IF stdout \in BadUtf8Texts THEN [exc |-> "UnicodeDecodeError", text |-> ""]
  ELSE [exc |-> "none", text |-> stdout]

\* json.loads(): the document whose JSON text is the input, or JSONDecodeError
json_loads(text) ==
  IF \E doc \in Docs : Dumps(doc) = text
  THEN [exc |-> "none", value |-> CHOOSE doc \in Docs : Dumps(doc) = text]
  ELSE [exc |-> "JSONDecodeError", value |-> NoValue]

\* call_cmd as it would be with check=False: the exit code is ignored and
\* the captured output is parsed whatever the command returned
call_cmd_unchecked(res, output_json) ==
  IF ~res.found
  THEN [exc |-> "FileNotFoundError", value |-> NoValue, logs |-> <<>>]
  ELSE IF res.stdout = ""
  THEN [exc |-> "none", value |-> NoValue, logs |-> <<>>]
  ELSE LET dec == decode(res.stdout)
       IN IF dec.exc # "none"
          THEN [exc |-> dec.exc, value |-> NoValue, logs |-> <<>>]
          ELSE IF output_json
          THEN [exc |-> json_loads(dec.text).exc,
                value |-> json_loads(dec.text).value, logs |-> <<>>]
          ELSE [exc |-> "none", value |-> PyScalar(PyStr(dec.text)), logs |-> <<>>]

\* call_cmd(cmd, output_json): exc is the exception that leaves the function
\* ("none" when it returns), value the returned object, logs what it logged.
\* A non-zero exit makes subprocess.run raise CalledProcessError, which is
\* caught and logged; proc is then unbound when proc.stdout is evaluated.
call_cmd(res, output_json) ==
  IF ~res.found
  THEN [exc |-> "FileNotFoundError", value |-> NoValue, logs |-> <<>>]
  ELSE IF res.returncode # 0
  THEN [exc |-> "UnboundLocalError", value |-> NoValue,
        logs |-> <<LogRec("ERROR", "CalledProcessError", NoLogArg)>>]
  ELSE IF res.stdout = ""
  THEN [exc |-> "none", value |-> NoValue, logs |-> <<>>]
  ELSE LET dec == decode(res.stdout)
       IN IF dec.exc # "none"
          THEN [exc |-> dec.exc, value |-> NoValue, logs |-> <<>>]
          ELSE IF output_json
          THEN [exc |-> json_loads(dec.text).exc,
                value |-> json_loads(dec.text).value, logs |-> <<>>]
          ELSE [exc |-> "none", value |-> PyScalar(PyStr(dec.text)), logs |-> <<>>]

(* ---------------- get_bmc_info ---------------- *)

\* data.get(key, "") in place of data[key]: a missing key yields ""
subscript_get(obj, key) ==
  IF obj.t # "dict" THEN [exc |-> "AttributeError", value |-> Absent]
  ELSE IF obj.d[key] = Absent THEN [exc |-> "none", value |-> PyStr("")]
  ELSE [exc |-> "none", value |-> obj.d[key]]

\* data[key]: subscripting a non-dict is a TypeError, a missing key a KeyError
subscript(obj, key) ==
  IF obj.t # "dict" THEN [exc |-> "TypeError", value |-> Absent]
  ELSE IF obj.d[key] = Absent THEN [exc |-> "KeyError", value |-> Absent]
  ELSE [exc |-> "none", value |-> obj.d[key]]

\* lines 54-58: the three lookups in order, then the returned tuple
get_bmc_info_extract(obj) ==
  LET a == subscript(obj, "power_address")
      u == subscript(obj, "power_user")
      p == subscript(obj, "power_pass")
  IN IF a.exc # "none" THEN [exc |-> a.exc, bmc |-> <<Absent, Absent, Absent>>]
     ELSE IF u.exc # "none" THEN [exc |-> u.exc, bmc |-> <<Absent, Absent, Absent>>]
     ELSE IF p.exc # "none" THEN [exc |-> p.exc, bmc |-> <<Absent, Absent, Absent>>]
     ELSE [exc |-> "none", bmc |-> <<a.value, u.value, p.value>>]

(* ---------------- set_environ_vars ---------------- *)

EnvNames == {"BMC_IP", "BMC_USER", "BMC_PASS"}

\* An entry of the environment table: val is the variable's value (Absent
\* when the variable is unset), byRun records that this run assigned it.
EnvEntry(val, byRun) == [val |-> val, byRun |-> byRun]

\* os.env[name] = value: the value must be a str without a NUL character
environ_setitem(environ, name, value) ==
  IF value.t # "str" THEN [exc |-> "TypeError", env |-> environ]
  ELSE IF value.v = "a<NUL>b" THEN [exc |-> "ValueError", env |-> environ]
  ELSE [exc |-> "none", env |-> [environ EXCEPT ![name] = EnvEntry(value, TRUE)]]

\* set_environ_vars with the user and the password exchanged
set_environ_vars_swapped(environ, bmc_ip, bmc_user, bmc_pass) ==
  LET s1 == environ_setitem(environ, "BMC_IP", bmc_ip)
      s2 == environ_setitem(s1.env, "BMC_USER", bmc_pass)
      s3 == environ_setitem(s2.env, "BMC_PASS", bmc_user)
  IN IF s1.exc # "none" THEN s1
     ELSE IF s2.exc # "none" THEN s2
     ELSE s3

\* the three assignments in order; the first that raises ends the function
set_environ_vars(environ, bmc_ip, bmc_user, bmc_pass) ==
  LET s1 == environ_setitem(environ, "BMC_IP", bmc_ip)
      s2 == environ_setitem(s1.env, "BMC_USER", bmc_user)
      s3 == environ_setitem(s2.env, "BMC_PASS", bmc_pass)
  IN IF s1.exc # "none" THEN s1
     ELSE IF s2.exc # "none" THEN s2
     ELSE s3

(* ---------------- main ---------------- *)

\* the path built with an underscore in place of the hyphen
secret_path_underscore(n) == "bmc_" \o n

\* f"bmc-{node_id}"
secret_path(n) == "bmc-" \o n

\* dict(ip=bmc_ip, user=bmc_user, passw=bmc_pass)
secret_dict(bmc_ip, bmc_user, bmc_pass) ==
  [ip |-> bmc_ip, user |-> bmc_user, passw |-> bmc_pass]

\* read_response['data']['data']
response_payload(resp) == resp.data.data

\* main with the read-back placed before the write
main_next_read_first(step, err) ==
  IF err # "none" THEN "raised"
  ELSE CASE step = "call_cmd" -> "extract"
         [] step = "extract" -> "set_environ_vars"
         [] step = "set_environ_vars" -> "client"
         [] step = "client" -> "read"
         [] step = "read" -> "write"
         [] step = "write" -> "log"
         [] step = "log" -> "done"

\* main with the environment export placed after the write
main_next_export_late(step, err) ==
  IF err # "none" THEN "raised"
  ELSE CASE step = "call_cmd" -> "extract"
         [] step = "extract" -> "client"
         [] step = "client" -> "write"
         [] step = "write" -> "set_environ_vars"
         [] step = "set_environ_vars" -> "read"
         [] step = "read" -> "log"
         [] step = "log" -> "done"

\* main with the store calls wrapped in try/except that only logs
main_next_swallow(step, err) ==
  IF err # "none" /\ step \notin {"write", "read"} THEN "raised"
  ELSE CASE step = "call_cmd" -> "extract"
         [] step = "extract" -> "set_environ_vars"
         [] step = "set_environ_vars" -> "client"
         [] step = "client" -> "write"
         [] step = "write" -> "read"
         [] step = "read" -> "log"
         [] step = "log" -> "done"

\* main has no exception handler: a statement that raises ends the run,
\* otherwise control passes to the next statement
main_next(step, err) ==
  IF err # "none" THEN "raised"
  ELSE CASE step = "call_cmd" -> "extract"
         [] step = "extract" -> "set_environ_vars"
         [] step = "set_environ_vars" -> "client"
         [] step = "client" -> "write"
         [] step = "write" -> "read"
         [] step = "read" -> "log"
         [] step = "log" -> "done"

\* main with a catch-all handler that exits with status 1 on any exception
main_outcome_catch_all(err) == IF err = "none" THEN "ok" ELSE "SystemExit"

\* how the run ends: the uncaught exception reaches the interpreter, which
\* prints a traceback naming its class; a normal return ends with "ok"
main_outcome(err) == IF err = "none" THEN "ok" ELSE err

(* ---------------- the secret store ---------------- *)

\* exceptions the hvac client raises: the server cannot be reached, the
\* token is rejected, the path or mount does not exist
StoreErrors == {"ConnectionError", "Forbidden", "InvalidPath"}

\* KV v2 create-or-update: a new version is appended at the path
kv_write(st, path, secret) ==
  [p \in DOMAIN st \cup {path} |->
     IF p = path
     THEN (IF p \in DOMAIN st THEN Append(st[p], secret) ELSE <<secret>>)
     ELSE st[p]]

\* KV v2 read of the latest version: the secret is nested under data.data
kv_read(st, path) ==
  [data |-> [data |-> st[path][Len(st[path])],
             metadata |-> [version |-> Len(st[path])]]]

NoResponse == [data |-> [data |-> NoLogArg, metadata |-> [version |-> 0]]]
StoreCall(op, path, secret) == [op |-> op, path |-> path, secret |-> secret]

(* ---------------- state ---------------- *)

VARIABLES
  pc,             \* the statement of main about to run, or "done" / "raised"
  proc,           \* what subprocess.run observed
  data,           \* the value call_cmd returned to get_bmc_info
  bmc,            \* the tuple (bmc_ip, bmc_user, bmc_pass) of main
  env,            \* os.environ restricted to BMC_IP, BMC_USER, BMC_PASS
  client,         \* whether hvac.Client has been constructed
  store,          \* the secret store: path -> sequence of versions
  read_response,  \* the value read_secret_version returned
  log,            \* records emitted through logger
  exc,            \* the exception that ended the run, "none" otherwise
  outcome,        \* how the run ended: "running", "ok" or the exception class
  started,        \* steps that have begun, in order
  completed,      \* steps that have returned normally, in order
  failed,         \* steps whose call raised, in order
  storeCalls      \* calls made on the secret store, in order

vars == <<pc, proc, data, bmc, env, client, store, read_response, log, exc,
          outcome, started, completed, failed, storeCalls>>

NoProc == [found |-> FALSE, returncode |-> 0, stdout |-> ""]
OldSecret == secret_dict(PyStr("192.168.0.9"), PyStr("root"), PyStr("old"))
CleanEnv == [n \in EnvNames |-> EnvEntry(Absent, FALSE)]
InheritedEnv ==
  [n \in EnvNames |->
     EnvEntry(CASE n = "BMC_IP" -> OldSecret.ip
                [] n = "BMC_USER" -> OldSecret.user
                [] n = "BMC_PASS" -> OldSecret.passw, FALSE)]

RECURSIVE Versions(_)
Versions(n) == IF n = 0 THEN <<>> ELSE Append(Versions(n - 1), OldSecret)

\* the store before the run: the node's path is missing or holds 1..MaxPrior
\* earlier versions
PriorStores ==
  {[p \in {} |-> <<>>]}
  \cup {[p \in {"bmc-m7gfpp"} |-> Versions(n)] : n \in 1..MaxPrior}

Init ==
  /\ pc = "call_cmd"
  /\ proc = NoProc
  /\ data = NoValue
  /\ bmc = <<Absent, Absent, Absent>>
  /\ env \in {CleanEnv, InheritedEnv}
  /\ client = FALSE
  /\ store \in PriorStores
  /\ read_response = NoResponse
  /\ log = <<>>
  /\ exc = "none"
  /\ outcome = "running"
  /\ started = <<>>
  /\ completed = <<>>
  /\ failed = <<>>
  /\ storeCalls = <<>>

\* bookkeeping shared by every statement of main: step ran and ended with e
Advance(step, e) ==
  /\ pc' = main_next(step, e)
  /\ started' = Append(started, step)
  /\ completed' = IF e = "none" THEN Append(completed, step) ELSE completed
  /\ failed' = IF e = "none" THEN failed ELSE Append(failed, step)
  /\ exc' = IF pc' = "raised" THEN e ELSE exc
  /\ outcome' = IF pc' \in {"raised", "done"} THEN main_outcome(e) ELSE outcome

\* line 84, first half: get_bmc_info logs and calls call_cmd
CallCmd ==
  /\ pc = "call_cmd"
  /\ \E res \in CmdResults :
       LET r == call_cmd(res, TRUE)
       IN /\ proc' = res
          /\ data' = r.value
          /\ log' = log \o <<LogRec("INFO", "Fetching BMC information from node " \o node_id, NoLogArg)>> \o r.logs
          /\ Advance("call_cmd", r.exc)
  /\ UNCHANGED <<bmc, env, client, store, read_response, storeCalls>>

\* line 84, second half: get_bmc_info extracts the three fields and returns
Extract ==
  /\ pc = "extract"
  /\ LET r == get_bmc_info_extract(data)
     IN /\ bmc' = r.bmc
        /\ Advance("extract", r.exc)
  /\ UNCHANGED <<proc, data, env, client, store, read_response, log, storeCalls>>

\* line 85
SetEnvironVars ==
  /\ pc = "set_environ_vars"
  /\ LET r == set_environ_vars(env, bmc[1], bmc[2], bmc[3])
     IN /\ env' = r.env
        /\ Advance("set_environ_vars", r.exc)
  /\ UNCHANGED <<proc, data, bmc, client, store, read_response, log, storeCalls>>

\* lines 87-89: constructing the client opens no connection
ClientCreate ==
  /\ pc = "client"
  /\ client' = TRUE
  /\ storeCalls' = Append(storeCalls, StoreCall("client", "", NoLogArg))
  /\ Advance("client", "none")
  /\ UNCHANGED <<proc, data, bmc, env, store, read_response, log>>

\* lines 91-97
VaultWrite ==
  /\ pc = "write"
  /\ LET path == secret_path(node_id)
         secret == secret_dict(bmc[1], bmc[2], bmc[3])
     IN /\ storeCalls' = Append(storeCalls, StoreCall("write", path, secret))
        /\ \E e \in StoreErrors \cup {"none"} :
             /\ store' = IF e = "none" THEN kv_write(store, path, secret) ELSE store
             /\ Advance("write", e)
  /\ UNCHANGED <<proc, data, bmc, env, client, read_response, log>>

\* line 99
VaultRead ==
  /\ pc = "read"
  /\ LET path == secret_path(node_id)
     IN /\ storeCalls' = Append(storeCalls, StoreCall("read", path, NoLogArg))
        /\ \E e \in StoreErrors \cup {"none"} :
             /\ e = "none" => path \in DOMAIN store
             /\ read_response' = IF e = "none" THEN kv_read(store, path) ELSE read_response
             /\ Advance("read", e)
  /\ UNCHANGED <<proc, data, bmc, env, client, store, log>>

\* line 102
LogResult ==
  /\ pc = "log"
  /\ log' = Append(log, LogRec("INFO", "Read BMC Info from Vault: %s", response_payload(read_response)))
  /\ Advance("log", "none")
  /\ UNCHANGED <<proc, data, bmc, env, client, store, read_response, storeCalls>>

Next ==
  \/ CallCmd
  \/ Extract
  \/ SetEnvironVars
  \/ ClientCreate
  \/ VaultWrite
  \/ VaultRead
  \/ LogResult

Spec == Init /\ [][Next]_vars

(* ---------------- properties ---------------- *)

Has(seq, x) == \E i \in DOMAIN seq : seq[i] = x
HasCall(op) == \E i \in DOMAIN storeCalls : storeCalls[i].op = op
AssignedByRun == {n \in EnvNames : env[n].byRun}
NonZeroExit == Has(started, "call_cmd") /\ proc.found /\ proc.returncode # 0
ResultLogged ==
  \E i \in DOMAIN log : log[i].msg = "Read BMC Info from Vault: %s"
ExampleOutput ==
  "{\"power_address\":\"10.0.0.5\",\"power_user\":\"admin\",\"power_pass\":\"secret\"}"
\* the secret that corresponds to the parsed inventory response
ExpectedSecret ==
  [ip |-> data.d["power_address"], user |-> data.d["power_user"],
   passw |-> data.d["power_pass"]]
LacksField == \E k \in Keys : data.d[k] = Absent

\* C1: when the inventory command exits non-zero, the run sets none of
\* BMC_IP, BMC_USER, BMC_PASS and never calls create_or_update_secret.
C1_NoExportNoWriteOnCmdFailure ==
  NonZeroExit => AssignedByRun = {} /\ ~HasCall("write")

\* the run has ended after a non-zero exit whose output was a complete response
C1_Witness ==
  /\ NonZeroExit
  /\ proc.stdout = ExampleOutput
  /\ pc = "raised"

\* C2: when the parsed response lacks one of the three keys, the run fails
\* inside get_bmc_info and no secret-store call (client, write, read) is made.
C2_MissingFieldFailsBeforeStore ==
  (Has(completed, "call_cmd") /\ LacksField) =>
     /\ storeCalls = <<>>
     /\ ~client
     /\ pc \in {"extract", "raised"}
     /\ pc = "raised" => failed = <<"extract">>

\* a dict response without power_pass has made the extraction raise KeyError
C2_Witness ==
  /\ data.t = "dict"
  /\ data.d["power_address"] # Absent
  /\ data.d["power_user"] # Absent
  /\ data.d["power_pass"] = Absent
  /\ failed = <<"extract">>
  /\ exc = "KeyError"

\* C3: call_cmd raises CalledProcessError to its caller whenever the command
\* returns a non-zero return code.
C3_RaisesCalledProcessError ==
  NonZeroExit => Has(failed, "call_cmd") /\ exc = "CalledProcessError"

\* C4: once the environment export has completed, BMC_IP, BMC_USER and
\* BMC_PASS hold the response's power_address, power_user and power_pass
\* (10.0.0.5 / admin / secret for the example output), in every later state.
C4_EnvHoldsCredentials ==
  Has(completed, "set_environ_vars") =>
     /\ env["BMC_IP"].val = data.d["power_address"]
     /\ env["BMC_USER"].val = data.d["power_user"]
     /\ env["BMC_PASS"].val = data.d["power_pass"]
     /\ proc.stdout = ExampleOutput =>
          /\ env["BMC_IP"].val = PyStr("10.0.0.5")
          /\ env["BMC_USER"].val = PyStr("admin")
          /\ env["BMC_PASS"].val = PyStr("secret")

\* the example response has been exported over inherited values and the run
\* has gone on to its end
C4_Witness ==
  /\ proc.stdout = ExampleOutput
  /\ pc = "done"
  /\ AssignedByRun = EnvNames
  /\ env["BMC_USER"].val = PyStr("admin")
  /\ env["BMC_PASS"].val = PyStr("secret")

\* C5: the write and the read both use the path "bmc-" followed by the node
\* identifier (bmc-m7gfpp), and the secret written has exactly the keys ip,
\* user, passw holding power_address, power_user and power_pass.
C5_PathAndSecretShape ==
  \A i \in DOMAIN storeCalls :
     storeCalls[i].op \in {"write", "read"} =>
        /\ storeCalls[i].path = "bmc-" \o node_id
        /\ storeCalls[i].path = "bmc-m7gfpp"
        /\ storeCalls[i].op = "write" =>
             /\ DOMAIN storeCalls[i].secret = {"ip", "user", "passw"}
             /\ storeCalls[i].secret = ExpectedSecret

\* both the write and the read have been issued, with distinct field values
C5_Witness ==
  /\ HasCall("write")
  /\ HasCall("read")
  /\ proc.stdout = ExampleOutput

\* C6: after the write and the read-back, the response's data.data is exactly
\* the secret {ip, user, passw} that was written, whatever the store held
\* before, and that is the value logged.
C6_RoundTrip ==
  /\ Has(completed, "read") =>
       /\ HasCall("write")
       /\ read_response.data.data = ExpectedSecret
  /\ Has(completed, "log") => log[Len(log)].arg = ExpectedSecret

\* the read-back returned the new secret from a path that already held an
\* earlier version with other values
C6_Witness ==
  /\ Has(completed, "read")
  /\ "bmc-m7gfpp" \in DOMAIN store
  /\ Len(store["bmc-m7gfpp"]) >= 2
  /\ store["bmc-m7gfpp"][1] = OldSecret
  /\ read_response.data.data # OldSecret
  /\ read_response.data.data.ip = PyStr("10.0.0.5")

\* outcomes of the runs that fail on the inventory side, over every result of
\* the command and every value call_cmd can return
InventoryFailureOutcomes ==
  ({main_outcome(call_cmd(r, TRUE).exc) : r \in CmdResults}
   \cup {main_outcome(get_bmc_info_extract(d).exc) : d \in Docs})
  \ {"ok"}

\* C7: a run that ends because the store cannot be reached ends with an
\* outcome that no inventory-side failure produces.
C7_ConnectionFailureDistinguishable ==
  (failed # <<>> /\ failed[1] \in {"write", "read"} /\ exc = "ConnectionError") =>
     /\ outcome \notin {"running", "ok"}
     /\ outcome \notin InventoryFailureOutcomes

\* the write could not reach the store
C7_Witness ==
  /\ failed = <<"write">>
  /\ exc = "ConnectionError"
  /\ pc = "raised"

StepOrder == <<"call_cmd", "extract", "set_environ_vars", "write", "read", "log">>
IsStep(x) == \E i \in DOMAIN StepOrder : StepOrder[i] = x
IsPrefix(a, b) == Len(a) <= Len(b) /\ \A i \in DOMAIN a : a[i] = b[i]

\* C8: the steps invoke, extract, export, write, read, log occur in that
\* order, each at most once, and a step starts only after every step before
\* it has completed successfully.
C8_StrictOrder ==
  /\ IsPrefix(SelectSeq(started, IsStep), StepOrder)
  /\ IsPrefix(SelectSeq(completed, IsStep), StepOrder)
  /\ Len(started) <= Len(completed) + 1
  /\ Len(started) = Len(completed) + 1 => pc = "raised"
  /\ pc # "raised" => started = completed

\* all six steps have run
C8_Witness ==
  /\ SelectSeq(completed, IsStep) = StepOrder
  /\ pc = "done"

\* C9: a failed write or read-back aborts the run with a reported failure;
\* after a failed write no read-back is attempted, and after either failure
\* the result is never logged.
C9_StoreFailureAborts ==
  /\ Has(failed, "write") => ~HasCall("read")
  /\ (Has(failed, "write") \/ Has(failed, "read")) =>
       /\ pc = "raised"
       /\ outcome \in StoreErrors
       /\ ~ResultLogged

\* the read-back failed after a successful write
C9_Witness ==
  /\ Has(completed, "write")
  /\ failed = <<"read">>
  /\ pc = "raised"

\* C10: when a run has ended it has set none or all three of the variables,
\* whatever the types of the response's values, and when the write is issued
\* all three are set to the values written.
C10_ExportAllOrNothing ==
  /\ pc \in {"done", "raised"} => AssignedByRun \in {{}, EnvNames}
  /\ \A i \in DOMAIN storeCalls :
       storeCalls[i].op = "write" =>
          /\ AssignedByRun = EnvNames
          /\ env["BMC_IP"].val = storeCalls[i].secret.ip
          /\ env["BMC_USER"].val = storeCalls[i].secret.user
          /\ env["BMC_PASS"].val = storeCalls[i].secret.passw

====
